---- MODULE Spec2Model ----
(***************************************************************************)
(* Model of the Mapty workout tracker (src/script.js): the Workout,        *)
(* Running and Cycling classes and the App controller with its DOM, map,   *)
(* geolocation and localStorage collaborators.                             *)
(*                                                                         *)
(* JavaScript values are tagged records: [t |-> "num", n, d] is the finite *)
(* number n/d (reduced, d > 0), NaN / PosInf / NegInf the non-finite       *)
(* numbers, Str(s) a string, Undefined an absent or undefined property.    *)
(* Finite numbers are exact rationals; signed zero and the rounding of     *)
(* IEEE doubles are not modelled.  Raw input strings are sequences of      *)
(* one-character strings so that the unary plus conversion can be computed.*)
(***************************************************************************)
EXTENDS Integers, Sequences, FiniteSets, TLC

VARIABLES
    storage,    \* localStorage item 'workouts'
    phase,      \* "boot": script about to run; "up": constructor returned; "failed": constructor threw
    geo,        \* geolocation request: "idle", "pending", "resolved", "failed"
    workouts,   \* App.#workouts
    map,        \* App.#map and its view
    markers,    \* markers added to the map, oldest first
    mapEvent,   \* App.#mapEvent
    form,       \* the form element: class 'hidden', style.display, focus
    timers,     \* pending setTimeout callbacks of #hideForm
    inputs,     \* values of the five form controls
    rows,       \* class form__row--hidden of the cadence and elevation rows
    list,       \* rendered list entries, top entry first
    handlers,   \* event listeners the constructor has added
    now,        \* index in Instants of the latest clock reading, 0 before the first
    last        \* what the most recent handler did: its name, exception, alert

vars == <<storage, phase, geo, workouts, map, markers, mapEvent, form, timers,
          inputs, rows, list, handlers, now, last>>

----------------------------------------------------------------------------
(* Bounds of the model *)

MaxWorkouts == 2

\* Date.now() = epoch * 10^10 + tick milliseconds: the instants at which a record
\* can be created, in order.  Two records are created by two submits, which are
\* at least the second of the hide timer, or a page load, apart, so no two
\* records are created at the same instant; the first two instants give
\* different ids, the last two the same id 10^10 ms apart.
Instants == << [epoch |-> 170, tick |-> 0],
               [epoch |-> 170, tick |-> 1],
               [epoch |-> 171, tick |-> 1] >>

\* positions a map click can carry, and the position geolocation reports
ClickCoords == { <<10, 20>>, <<0, 0>> }
HomeCoords == <<50, 8>>

----------------------------------------------------------------------------
(* JavaScript values *)

Undefined == [t |-> "undefined"]
Null == [t |-> "null"]
NaN == [t |-> "NaN"]
PosInf == [t |-> "Infinity"]
NegInf == [t |-> "-Infinity"]
Str(s) == [t |-> "str", s |-> s]

Abs(i) == IF i < 0 THEN -i ELSE i

RECURSIVE Gcd(_, _)
Gcd(a, b) == IF b = 0 THEN a ELSE Gcd(b, a % b)

\* the finite number n/d, d # 0, in lowest terms with a positive denominator
Num(n, d) ==
    LET g == Gcd(Abs(n), Abs(d))
        s == IF d < 0 THEN -1 ELSE 1
    IN  [t |-> "num", n |-> (s * n) \div g, d |-> (s * d) \div g]

Int2Num(i) == Num(i, 1)

IsNumber(x) == x.t \in {"num", "NaN", "Infinity", "-Infinity"}

\* Number.isFinite(x)
IsFinite(x) == x.t = "num"

Sign(x) == IF x.t = "-Infinity" \/ (x.t = "num" /\ x.n < 0) THEN -1 ELSE 1

\* a / b on numbers
Divide(a, b) ==
    IF a.t = "NaN" \/ b.t = "NaN" THEN NaN
    ELSE IF a.t = "num" /\ b.t = "num"
         THEN IF b.n = 0
              THEN IF a.n = 0 THEN NaN ELSE IF a.n > 0 THEN PosInf ELSE NegInf
              ELSE Num(a.n * b.d, a.d * b.n)
    ELSE IF a.t = "num" THEN Num(0, 1)
    ELSE IF b.t # "num" THEN NaN
    ELSE IF Sign(a) * Sign(b) > 0 THEN PosInf ELSE NegInf

----------------------------------------------------------------------------
(* The unary plus of #newWorkout: string to number *)

DigitChars == <<"0", "1", "2", "3", "4", "5", "6", "7", "8", "9">>

IsDigit(c) == \E i \in 1..10 : DigitChars[i] = c

DigitVal(c) == (CHOOSE i \in 1..10 : DigitChars[i] = c) - 1

AllDigits(s) == \A i \in 1..Len(s) : IsDigit(s[i])

RECURSIVE DigitsVal(_)
DigitsVal(s) ==
    IF s = <<>> THEN 0
    ELSE 10 * DigitsVal(SubSeq(s, 1, Len(s) - 1)) + DigitVal(s[Len(s)])

RECURSIVE Pow10(_)
Pow10(k) == IF k = 0 THEN 1 ELSE 10 * Pow10(k - 1)

InfinityChars == <<"I", "n", "f", "i", "n", "i", "t", "y">>

\* an unsigned decimal literal: digits, digits.digits, digits., .digits, Infinity
ParseUnsigned(s) ==
    IF s = InfinityChars THEN PosInf
    ELSE IF s # <<>> /\ AllDigits(s) THEN Num(DigitsVal(s), 1)
    ELSE IF \E p \in 1..Len(s) : s[p] = "."
         THEN LET p == CHOOSE q \in 1..Len(s) : s[q] = "."
                  whole == SubSeq(s, 1, p - 1)
                  frac == SubSeq(s, p + 1, Len(s))
              IN  IF AllDigits(whole) /\ AllDigits(frac) /\ Len(whole) + Len(frac) > 0
                  THEN Num(DigitsVal(whole) * Pow10(Len(frac)) + DigitsVal(frac),
                           Pow10(Len(frac)))
                  ELSE NaN
    ELSE NaN

\* +value for the string value of a form control
ToNumber(s) ==
    IF s = <<>> THEN Num(0, 1)
    ELSE IF Head(s) = "-"
         THEN LET u == ParseUnsigned(Tail(s))
              IN  IF u.t = "num" THEN Num(-u.n, u.d)
                  ELSE IF u.t = "Infinity" THEN NegInf ELSE NaN
    ELSE IF Head(s) = "+" THEN ParseUnsigned(Tail(s))
    ELSE ParseUnsigned(s)

\* a string value given by its characters
Chars(cs) == [t |-> "chars", cs |-> cs]

\* the conversion x > 0 applies to x: undefined is NaN, null is 0, a string is
\* read as by the unary plus, a number is itself
ToNumeric(x) ==
    CASE x.t = "undefined" -> NaN
      [] x.t = "null" -> Num(0, 1)
      [] x.t = "chars" -> ToNumber(x.cs)
      [] OTHER -> x

\* x > 0
GreaterThanZero(x) ==
    LET v == ToNumeric(x)
    IN  \/ v.t = "Infinity"
        \/ v.t = "num" /\ v.n > 0

----------------------------------------------------------------------------
(* Strings built by the program *)

RECURSIVE Join(_)
Join(cs) == IF cs = <<>> THEN "" ELSE Head(cs) \o Join(Tail(cs))

RECURSIVE Zeros(_)
Zeros(k) == IF k <= 0 THEN "" ELSE "0" \o Zeros(k - 1)

\* number of decimal digits of a natural number
RECURSIVE Width(_)
Width(k) == IF k < 10 THEN 1 ELSE 1 + Width(k \div 10)

\* characters kept by slice(-10)
IdLength == 10

\* (Date.now() + '').slice(-10): the last ten digits of epoch * 10^10 + tick
IdOf(at) == Str(Zeros(IdLength - Width(at.tick)) \o ToString(at.tick))

LowerChars == <<"a", "b", "c", "d", "e", "f", "g", "h", "i", "j", "k", "l", "m",
                "n", "o", "p", "q", "r", "s", "t", "u", "v", "w", "x", "y", "z">>
UpperChars == <<"A", "B", "C", "D", "E", "F", "G", "H", "I", "J", "K", "L", "M",
                "N", "O", "P", "Q", "R", "S", "T", "U", "V", "W", "X", "Y", "Z">>

\* c.toUpperCase() for one character
ToUpperCase(c) ==
    IF \E i \in 1..26 : LowerChars[i] = c
    THEN UpperChars[CHOOSE i \in 1..26 : LowerChars[i] = c]
    ELSE c

\* the characters of the two type strings
CharsOf(s) ==
    CASE s = "running" -> <<"r", "u", "n", "n", "i", "n", "g">>
      [] s = "cycling" -> <<"c", "y", "c", "l", "i", "n", "g">>

months == <<"January", "February", "March", "April", "May", "June", "July",
            "August", "September", "October", "November", "December">>

\* Date.getMonth() (0-based) and Date.getDate() of an instant, in UTC
GetMonth(at) == CASE at.epoch = 170 -> 10 [] at.epoch = 171 -> 2
                  [] at.epoch = 172 -> 6 [] OTHER -> 9
GetDate(at) == CASE at.epoch = 170 -> 14 [] at.epoch = 171 -> 9
                 [] at.epoch = 172 -> 3 [] OTHER -> 27

\* `${v}` for the values interpolated into markup and popup text
Template(v) ==
    CASE v.t = "str" -> v.s
      [] v.t = "undefined" -> "undefined"
      [] v.t = "null" -> "null"
      [] OTHER -> v.t

----------------------------------------------------------------------------
(* class Workout, class Running, class Cycling *)

DateAt(at) == [t |-> "date", epoch |-> at.epoch, tick |-> at.tick]

\* new Workout(coords, distance, duration); date and id are read from the clock
Workout(coords, distance, duration, dateAt, idAt) ==
    [ proto |-> "Workout",
      date |-> DateAt(dateAt),
      id |-> IdOf(idAt),
      clicks |-> Num(0, 1),
      coords |-> coords,
      distance |-> distance,
      duration |-> duration,
      type |-> Undefined,
      cadence |-> Undefined,
      pace |-> Undefined,
      elevationGain |-> Undefined,
      speed |-> Undefined,
      description |-> Undefined ]

\* Workout.setDescription
setDescription(w) ==
    LET cs == CharsOf(w.type.s)
    IN  [w EXCEPT !.description =
            Str(ToUpperCase(cs[1]) \o Join(Tail(cs)) \o " on "
                \o months[GetMonth(w.date) + 1] \o " " \o ToString(GetDate(w.date)))]

\* mutant: the pace is stored as shown, rounded to one decimal place
calcPace_mutRounded(w) ==
    [w EXCEPT !.pace =
        LET q == Divide(w.duration, w.distance)
        IN  IF q.t # "num" THEN q
            ELSE Num(Sign(q) * ((20 * Abs(q.n) + q.d) \div (2 * q.d)), 10)]

\* Running.calcPace: min/km
calcPace(w) == [w EXCEPT !.pace = Divide(w.duration, w.distance)]

MinutesPerHour == 60

\* mutant: the speed is left in km per minute
calcSpeed_mutPerMinute(w) == [w EXCEPT !.speed = Divide(w.distance, w.duration)]

\* Cycling.calcSpeed: km/h
calcSpeed(w) ==
    [w EXCEPT !.speed = Divide(w.distance, Divide(w.duration, Num(MinutesPerHour, 1)))]

\* new Running(coords, distance, duration, cadence)
Running(coords, distance, duration, cadence, dateAt, idAt) ==
    LET base == Workout(coords, distance, duration, dateAt, idAt)
        own == [base EXCEPT !.proto = "Running", !.type = Str("running"),
                            !.cadence = cadence]
    IN  setDescription(calcPace(own))

\* new Cycling(coords, distance, duration, elevationGain)
Cycling(coords, distance, duration, elevationGain, dateAt, idAt) ==
    LET base == Workout(coords, distance, duration, dateAt, idAt)
        own == [base EXCEPT !.proto = "Cycling", !.type = Str("cycling"),
                            !.elevationGain = elevationGain]
    IN  setDescription(calcSpeed(own))

\* Workout.click
click(w) == [w EXCEPT !.clicks = Num(w.clicks.n + 1, 1)]

----------------------------------------------------------------------------
(* JSON.stringify and JSON.parse of the store *)

\* value.toJSON() / serialization of one property value
ToJSON(v) ==
    CASE v.t = "date" -> [t |-> "isostr", epoch |-> v.epoch, tick |-> v.tick]
      [] v.t \in {"NaN", "Infinity", "-Infinity"} -> Null
      [] OTHER -> v

\* mutant: the derived metrics are left out of the object literal
SerializeWorkout_mutDropsDerived(w) ==
    [ proto |-> "Object",
      date |-> [t |-> "isostr", epoch |-> w.date.epoch, tick |-> w.date.tick],
      id |-> w.id,
      clicks |-> w.clicks,
      coords |-> w.coords,
      distance |-> w.distance,
      duration |-> w.duration,
      type |-> w.type,
      cadence |-> w.cadence,
      pace |-> Undefined,
      elevationGain |-> w.elevationGain,
      speed |-> Undefined,
      description |-> w.description ]

\* the object literal written for one record: own enumerable properties only
SerializeWorkout(w) ==
    [ proto |-> "Object",
      date |-> ToJSON(w.date),
      id |-> ToJSON(w.id),
      clicks |-> ToJSON(w.clicks),
      coords |-> w.coords,
      distance |-> ToJSON(w.distance),
      duration |-> ToJSON(w.duration),
      type |-> ToJSON(w.type),
      cadence |-> ToJSON(w.cadence),
      pace |-> ToJSON(w.pace),
      elevationGain |-> ToJSON(w.elevationGain),
      speed |-> ToJSON(w.speed),
      description |-> ToJSON(w.description) ]

Absent == [kind |-> "absent", items |-> <<>>]
Garbage == [kind |-> "garbage", items |-> <<>>]
NullText == [kind |-> "null", items |-> <<>>]

\* JSON.stringify(this.#workouts)
JSONStringify(ws) ==
    [kind |-> "array", items |-> [i \in 1..Len(ws) |-> SerializeWorkout(ws[i])]]

\* JSON.parse(localStorage.getItem('workouts')): getItem gives null for an
\* absent item and JSON.parse(null) is null
JSONParse(st) ==
    CASE st.kind = "garbage" -> [threw |-> "SyntaxError", isNull |-> FALSE, data |-> <<>>]
      [] st.kind \in {"absent", "null"} -> [threw |-> "none", isNull |-> TRUE, data |-> <<>>]
      [] OTHER -> [threw |-> "none", isNull |-> FALSE, data |-> st.items]

----------------------------------------------------------------------------
(* Rendering *)

FractionDigits == 1

\* x.toFixed(1) for a number x
ToFixed(x) ==
    IF x.t # "num" THEN Str(x.t)
    ELSE LET scale == Pow10(FractionDigits)
             m == (2 * scale * Abs(x.n) + x.d) \div (2 * x.d)
         IN  Str((IF x.n < 0 /\ m > 0 THEN "-" ELSE "")
                 \o ToString(m \div scale) \o "." \o ToString(m % scale))

Icon(w) == IF w.type = Str("running") THEN "runner" ELSE "cyclist"

\* L.marker(...).bindPopup(...).setPopupContent(...) of #renderWorkoutMarker
MarkerOf(w) ==
    [ coords |-> w.coords,
      className |-> Template(w.type) \o "-popup",
      content |-> Icon(w) \o " " \o Template(w.description) ]

\* mutant: the records found in the store at map load get no marker
RenderMarkers_mutSkipsAll(ws, ms) == ms

\* #renderWorkoutMarker on every record of ws, appended to ms
RECURSIVE RenderMarkers(_, _)
RenderMarkers(ws, ms) ==
    IF ws = <<>> THEN ms
    ELSE RenderMarkers(Tail(ws), Append(ms, MarkerOf(Head(ws))))

\* does #renderWorkout throw on w: toFixed is read from pace or speed
RenderThrows(w) ==
    \/ w.type = Str("running") /\ ~IsNumber(w.pace)
    \/ w.type = Str("cycling") /\ ~IsNumber(w.speed)

\* the <li> built by #renderWorkout
EntryOf(w) ==
    [ id |-> Template(w.id),
      class |-> "workout--" \o Template(w.type),
      title |-> Template(w.description),
      distance |-> w.distance,
      duration |-> w.duration,
      metric |-> IF w.type = Str("running") THEN ToFixed(w.pace)
                 ELSE IF w.type = Str("cycling") THEN ToFixed(w.speed)
                 ELSE Undefined,
      extra |-> IF w.type = Str("running") THEN w.cadence
                ELSE IF w.type = Str("cycling") THEN w.elevationGain
                ELSE Undefined,
      closed |-> w.type \in {Str("running"), Str("cycling")} ]

\* mutant: the entry is put at the end of the list ('beforeend' of the list)
renderWorkout_mutAtEnd(w, entries) ==
    IF RenderThrows(w) THEN [threw |-> "TypeError", list |-> entries]
    ELSE [threw |-> "none", list |-> Append(entries, EntryOf(w))]

\* #renderWorkout: form.insertAdjacentHTML('afterend', html) puts the entry on top
renderWorkout(w, entries) ==
    IF RenderThrows(w) THEN [threw |-> "TypeError", list |-> entries]
    ELSE [threw |-> "none", list |-> <<EntryOf(w)>> \o entries]

\* this.#workouts.forEach(workout => this.#renderWorkout(workout))
RECURSIVE RenderAll(_, _)
RenderAll(ws, entries) ==
    IF ws = <<>> THEN [threw |-> "none", list |-> entries]
    ELSE LET r == renderWorkout(Head(ws), entries)
         IN  IF r.threw # "none" THEN r ELSE RenderAll(Tail(ws), r.list)

\* mutant: the scan keeps the last record that matches
RECURSIVE Find_mutLastMatch(_, _)
Find_mutLastMatch(ws, id) ==
    IF ws = <<>> THEN Undefined
    ELSE IF ws[Len(ws)].id = Str(id) THEN ws[Len(ws)]
    ELSE Find_mutLastMatch(SubSeq(ws, 1, Len(ws) - 1), id)

\* this.#workouts.find(workout => workout.id === id)
RECURSIVE Find(_, _)
Find(ws, id) ==
    IF ws = <<>> THEN Undefined
    ELSE IF Head(ws).id = Str(id) THEN Head(ws)
    ELSE Find(Tail(ws), id)

----------------------------------------------------------------------------
(* The page as index.html delivers it *)

NoMap == [loaded |-> FALSE, center |-> <<0, 0>>, zoom |-> 0]
NoEvent == [set |-> FALSE, latlng |-> <<0, 0>>]

FreshForm == [hidden |-> TRUE, display |-> "", focus |-> "none"]
FreshInputs == [type |-> "running", distance |-> <<>>, duration |-> <<>>,
                cadence |-> <<>>, elevation |-> <<>>]
FreshRows == [cadenceHidden |-> FALSE, elevationHidden |-> TRUE]

Quiet(op) == [op |-> op, threw |-> "none", alert |-> ""]
Threw(op, e) == [op |-> op, threw |-> e, alert |-> ""]
Alerted(op, msg) == [op |-> op, threw |-> "none", alert |-> msg]

\* what the user can have typed into distance, duration, cadence, elevation
FormFills ==
    { [distance |-> <<"5">>, duration |-> <<"3", "0">>,
       cadence |-> <<"1", "5", "0">>, elevation |-> <<>>],
      [distance |-> <<"2", "0">>, duration |-> <<"6", "0">>,
       cadence |-> <<>>, elevation |-> <<"4", "0", "0">>],
      [distance |-> <<"2", "0">>, duration |-> <<"6", "0">>,
       cadence |-> <<"-", "1">>, elevation |-> <<"-", "4", "0", "0">>],
      [distance |-> <<"-", "5">>, duration |-> <<"a", "b", "c">>,
       cadence |-> <<"1", "5", "0">>, elevation |-> <<"4", "0", "0">>],
      [distance |-> <<"2", ".", "5">>, duration |-> <<"3", "0">>,
       cadence |-> <<"a", "b", "c">>, elevation |-> InfinityChars] }

----------------------------------------------------------------------------
(* class App *)

MapZoomLevel == 13

\* mutant: the finiteness check accepts everything
validInputs_mutAcceptsAll(xs) == TRUE

\* mutant: the global isFinite, which converts its argument first
validInputs_mutGlobalIsFinite(xs) == \A i \in 1..Len(xs) : IsFinite(ToNumeric(xs[i]))

\* const validInputs = (...inputs) => inputs.every(input => Number.isFinite(input))
validInputs(xs) == \A i \in 1..Len(xs) : IsFinite(xs[i])

\* mutant: zero passes the positivity check
allPositive_mutNonNegative(xs) ==
    \A i \in 1..Len(xs) : xs[i].t = "Infinity" \/ (xs[i].t = "num" /\ xs[i].n >= 0)

\* const allPositive = (...inputs) => inputs.every(input => input > 0)
allPositive(xs) == \A i \in 1..Len(xs) : GreaterThanZero(xs[i])

Init ==
    /\ storage \in {Absent, Garbage, NullText}
    /\ phase = "boot"
    /\ geo \in {"idle", "unsupported"}
    /\ workouts = <<>>
    /\ map = NoMap
    /\ markers = <<>>
    /\ mapEvent = NoEvent
    /\ form = FreshForm
    /\ timers = 0
    /\ inputs = FreshInputs
    /\ rows = FreshRows
    /\ list = <<>>
    /\ handlers = {}
    /\ now = 0
    /\ last = Quiet("load")

\* #getLocalStorage: the store and the list it leaves, and what it threw
getLocalStorage ==
    LET parsed == JSONParse(storage)
    IN  IF parsed.threw # "none"
        THEN [threw |-> parsed.threw, workouts |-> workouts, list |-> list]
        ELSE IF parsed.isNull
        THEN [threw |-> "none", workouts |-> workouts, list |-> list]
        ELSE LET r == RenderAll(parsed.data, list)
             IN  [threw |-> r.threw, workouts |-> parsed.data, list |-> r.list]

\* new App(): #getPosition, #getLocalStorage, then the three addEventListener calls
Construct ==
    /\ phase = "boot"
    /\ geo' = IF geo = "idle" THEN "pending" ELSE geo
    /\ LET r == getLocalStorage
       IN  /\ workouts' = r.workouts
           /\ list' = r.list
           /\ IF r.threw # "none"
              THEN /\ phase' = "failed"
                   /\ handlers' = handlers
                   /\ last' = Threw("constructor", r.threw)
              ELSE /\ phase' = "up"
                   /\ handlers' = {"submit", "change", "click"}
                   /\ last' = Quiet("constructor")
    /\ UNCHANGED <<storage, map, markers, mapEvent, form, timers, inputs, rows,
                   now>>

\* #loadMap, the success callback of getCurrentPosition
LoadMap ==
    /\ geo = "pending"
    /\ phase # "boot"
    /\ geo' = "resolved"
    /\ map' = [loaded |-> TRUE, center |-> HomeCoords, zoom |-> MapZoomLevel]
    /\ markers' = RenderMarkers(workouts, markers)
    /\ last' = Quiet("other")
    /\ UNCHANGED <<storage, phase, workouts, mapEvent, form, timers, inputs, rows,
                   list, handlers, now>>

\* the error callback of getCurrentPosition
GeoError ==
    /\ geo = "pending"
    /\ phase # "boot"
    /\ geo' = "failed"
    /\ last' = Alerted("geoError", "Could not get your position")
    /\ UNCHANGED <<storage, phase, workouts, map, markers, mapEvent, form, timers,
                   inputs, rows, list, handlers, now>>

\* #showForm, the map's click listener
MapClick ==
    /\ map.loaded
    /\ \E c \in ClickCoords : mapEvent' = [set |-> TRUE, latlng |-> c]
    /\ form' = [form EXCEPT !.hidden = FALSE, !.focus = "distance"]
    /\ last' = Quiet("other")
    /\ UNCHANGED <<storage, phase, geo, workouts, map, markers, timers, inputs,
                   rows, list, handlers, now>>

\* #hideForm
hideForm ==
    /\ inputs' = [inputs EXCEPT !.distance = <<>>, !.duration = <<>>,
                                !.cadence = <<>>, !.elevation = <<>>]
    /\ form' = [form EXCEPT !.display = "none", !.hidden = TRUE]
    /\ timers' = timers + 1

\* the callback #hideForm schedules with setTimeout
TimerFire ==
    /\ timers > 0
    /\ timers' = timers - 1
    /\ form' = [form EXCEPT !.display = "grid"]
    /\ last' = Quiet("other")
    /\ UNCHANGED <<storage, phase, geo, workouts, map, markers, mapEvent, inputs,
                   rows, list, handlers, now>>

\* the user edits the four text controls of the open, rendered form
Fill ==
    /\ phase # "boot"
    /\ ~form.hidden
    /\ form.display # "none"
    /\ \E f \in FormFills :
          inputs' = [inputs EXCEPT !.distance = f.distance, !.duration = f.duration,
                                   !.cadence = f.cadence, !.elevation = f.elevation]
    /\ last' = Quiet("other")
    /\ UNCHANGED <<storage, phase, geo, workouts, map, markers, mapEvent, form,
                   timers, rows, list, handlers, now>>

\* the user picks the other type; #toggleElevationField is the change listener
TypeChange ==
    /\ phase # "boot"
    /\ ~form.hidden
    /\ form.display # "none"
    /\ inputs' = [inputs EXCEPT !.type = IF @ = "running" THEN "cycling" ELSE "running"]
    /\ rows' = IF "change" \in handlers
               THEN [cadenceHidden |-> ~rows.cadenceHidden,
                     elevationHidden |-> ~rows.elevationHidden]
               ELSE rows
    /\ last' = Quiet("other")
    /\ UNCHANGED <<storage, phase, geo, workouts, map, markers, mapEvent, form,
                   timers, list, handlers, now>>

\* mutant: cycling is validated like running, elevation must be positive too
Rejected_mutSymmetric(type, distance, duration, cadence, elevation) ==
    IF type = "running"
    THEN \/ ~validInputs(<<distance, duration, cadence>>)
         \/ ~allPositive(<<distance, duration, cadence>>)
    ELSE \/ ~validInputs(<<distance, duration, elevation>>)
         \/ ~allPositive(<<distance, duration, elevation>>)

\* lines 163-166 and 176-179 of #newWorkout: is the submit refused
Rejected(type, distance, duration, cadence, elevation) ==
    IF type = "running"
    THEN \/ ~validInputs(<<distance, duration, cadence>>)
         \/ ~allPositive(<<distance, duration, cadence>>)
    ELSE \/ ~validInputs(<<distance, duration, elevation>>)
         \/ ~allPositive(<<distance, duration>>)

\* lines 168 and 181 of #newWorkout: the object the submit constructs
Constructed(type, coords, distance, duration, cadence, elevation, dateAt, idAt) ==
    IF type = "running"
    THEN Workout(coords, distance, duration, dateAt, idAt)
    ELSE Cycling(coords, distance, duration, elevation, dateAt, idAt)

\* mutant: the record is put in front (unshift)
push_mutUnshift(ws, w) == <<w>> \o ws

\* this.#workouts.push(workout)
push(ws, w) == Append(ws, w)

\* mutant: only the record just appended is written
setLocalStorage_mutNewestOnly ==
    storage' = JSONStringify(<<workouts'[Len(workouts')]>>)

\* #setLocalStorage, on the store as it will be
setLocalStorage == storage' = JSONStringify(workouts')

\* #newWorkout, the form's submit listener.  A form with display 'none' is not
\* rendered and cannot be submitted by the user; a form that only carries the
\* class 'hidden' can.
Submit ==
    /\ "submit" \in handlers
    /\ form.display # "none"
    /\ \E at \in 0..Len(Instants) :
        LET type == inputs.type
            distance == ToNumber(inputs.distance)
            duration == ToNumber(inputs.duration)
            cadence == ToNumber(inputs.cadence)
            elevation == ToNumber(inputs.elevation)
            workout == Constructed(type, mapEvent.latlng, distance, duration, cadence,
                                   elevation, Instants[at], Instants[at])
            rendered == renderWorkout(workout, list)
        IN  IF ~mapEvent.set
            THEN \* line 155: this.#mapEvent is undefined
                 /\ at = now
                 /\ last' = Threw("submit", "TypeError")
                 /\ UNCHANGED <<storage, workouts, markers, form, timers, inputs,
                                list, now>>
            ELSE IF Rejected(type, distance, duration, cadence, elevation)
            THEN /\ at = now
                 /\ last' = Alerted("submit", "Inputs have to be positive numbers!")
                 /\ UNCHANGED <<storage, workouts, markers, form, timers, inputs,
                                list, now>>
            ELSE /\ now < at
                 /\ Len(workouts) < MaxWorkouts
                 /\ now' = at
                 /\ workouts' = push(workouts, workout)
                 /\ IF ~map.loaded
                    THEN \* L.marker(...).addTo(undefined)
                         /\ last' = Threw("submit", "TypeError")
                         /\ UNCHANGED <<storage, markers, form, timers, inputs, list>>
                    ELSE /\ markers' = Append(markers, MarkerOf(workout))
                         /\ list' = rendered.list
                         /\ IF rendered.threw # "none"
                            THEN /\ last' = Threw("submit", rendered.threw)
                                 /\ UNCHANGED <<storage, form, timers, inputs>>
                            ELSE /\ hideForm
                                 /\ setLocalStorage
                                 /\ last' = Quiet("submit")
    /\ UNCHANGED <<phase, geo, map, mapEvent, rows, handlers>>

\* #moveToPopup, the list's click listener; entry 0 is a click outside every entry
ListClick ==
    /\ "click" \in handlers
    /\ \E k \in 0..Len(list) :
        IF k = 0
        THEN \* closest('.workout') is null
             /\ last' = Quiet("other")
             /\ map' = map
        ELSE LET workout == Find(workouts, list[k].id)
             IN  IF ~map.loaded \/ workout = Undefined
                 THEN /\ last' = Threw("listClick", "TypeError")
                      /\ map' = map
                 ELSE /\ last' = Quiet("listClick")
                      /\ map' = [map EXCEPT !.center = workout.coords,
                                            !.zoom = MapZoomLevel]
    /\ UNCHANGED <<storage, phase, geo, workouts, markers, mapEvent, form, timers,
                   inputs, rows, list, handlers, now>>

\* the page is loaded again: every object of the old page is gone
FreshPage ==
    /\ phase' = "boot"
    /\ geo' = IF geo = "unsupported" THEN geo ELSE "idle"
    /\ workouts' = <<>>
    /\ map' = NoMap
    /\ markers' = <<>>
    /\ mapEvent' = NoEvent
    /\ form' = FreshForm
    /\ timers' = 0
    /\ inputs' = FreshInputs
    /\ rows' = FreshRows
    /\ list' = <<>>
    /\ handlers' = {}
    /\ UNCHANGED now

\* the user reloads the page
Reload ==
    /\ phase # "boot"
    /\ FreshPage
    /\ last' = Quiet("load")
    /\ UNCHANGED storage

\* App.reset(), callable on the constructed app
Reset ==
    /\ phase = "up"
    /\ storage' = Absent
    /\ FreshPage
    /\ last' = Quiet("reset")

Next ==
    \/ Construct
    \/ LoadMap
    \/ GeoError
    \/ MapClick
    \/ TimerFire
    \/ Fill
    \/ TypeChange
    \/ Submit
    \/ ListClick
    \/ Reload
    \/ Reset

Spec == Init /\ [][Next]_vars

----------------------------------------------------------------------------
(* Vocabulary of the properties *)

SubmitMessage == "Inputs have to be positive numbers!"
AllHandlers == {"submit", "change", "click"}

\* the numbers a submit reads from the form
Distance == ToNumber(inputs.distance)
Duration == ToNumber(inputs.duration)
Cadence == ToNumber(inputs.cadence)
Elevation == ToNumber(inputs.elevation)

PositiveFinite(x) == x.t = "num" /\ x.n > 0

\* a step of the submit listener that got past reading the clicked position
SubmitStep == last'.op = "submit" /\ mapEvent.set

\* the step appends exactly one record and keeps the earlier ones in place
AppendsOne ==
    /\ Len(workouts') = Len(workouts) + 1
    /\ SubSeq(workouts', 1, Len(workouts)) = workouts

Newest(ws) == ws[Len(ws)]

\* C1 (as claimed): a running submit with finite positive distance, duration and
\* cadence, made after a map click, appends one record of type 'running' that
\* carries the submitted cadence and pace = duration / distance.
C1_RunningSubmitAppendsRunning ==
    [][ (SubmitStep /\ inputs.type = "running"
           /\ PositiveFinite(Distance) /\ PositiveFinite(Duration)
           /\ PositiveFinite(Cadence))
        => /\ AppendsOne
           /\ Newest(workouts').type = Str("running")
           /\ Newest(workouts').cadence = Cadence
           /\ Newest(workouts').pace
                = Num(Duration.n * Distance.d, Duration.d * Distance.n) ]_vars

\* C2: a cycling submit with finite positive distance and duration and finite
\* elevation, made after a map click, appends one record of type 'cycling' that
\* carries the submitted elevation and speed = distance / (duration / 60),
\* that is 60 * distance / duration.
C2_CyclingSubmitAppendsCycling ==
    [][ (SubmitStep /\ inputs.type = "cycling"
           /\ PositiveFinite(Distance) /\ PositiveFinite(Duration)
           /\ Elevation.t = "num")
        => /\ AppendsOne
           /\ Newest(workouts').type = Str("cycling")
           /\ Newest(workouts').elevationGain = Elevation
           /\ Newest(workouts').speed
                = Num(60 * Distance.n * Duration.d, Distance.d * Duration.n) ]_vars

\* the spec's scenario: distance 20, duration 60, elevation 400 gives speed 20
C2_Witness ==
    /\ last = Quiet("submit")
    /\ Len(workouts) >= 1
    /\ Newest(workouts).type = Str("cycling")
    /\ Newest(workouts).distance = Num(20, 1)
    /\ Newest(workouts).duration = Num(60, 1)
    /\ Newest(workouts).elevationGain = Num(400, 1)
    /\ Newest(workouts).speed = Num(20, 1)

\* the inputs of the form fail the validation policy stated for their type
InputsFailValidation ==
    IF inputs.type = "running"
    THEN ~(PositiveFinite(Distance) /\ PositiveFinite(Duration) /\ PositiveFinite(Cadence))
    ELSE ~(PositiveFinite(Distance) /\ PositiveFinite(Duration) /\ Elevation.t = "num")

\* C3: a submit whose inputs fail validation constructs no record (the clock is
\* not read), leaves store, persisted state, markers, list, map, form and inputs
\* as they were, shows the warning and throws nothing.
C3_RejectedSubmitChangesNothing ==
    [][ (SubmitStep /\ InputsFailValidation)
        => /\ UNCHANGED <<workouts, storage, markers, list, map, mapEvent, form,
                          inputs, timers, now>>
           /\ last'.alert = SubmitMessage
           /\ last'.threw = "none" ]_vars

\* the spec's scenario: running with distance -5 is refused, the store stays
\* empty and the form stays open with what was typed
C3_Witness ==
    /\ last = Alerted("submit", SubmitMessage)
    /\ inputs.type = "running"
    /\ inputs.distance = <<"-", "5">>
    /\ ~form.hidden
    /\ workouts = <<>>
    /\ storage = Absent

\* C4 (as claimed): a startup that found corrupt persisted state ends like a
\* startup that found none: constructor returned, store empty, the submit,
\* change and click listeners installed.
C4_CorruptStartsLikeAbsent ==
    (storage = Garbage /\ phase # "boot")
        => (phase = "up" /\ workouts = <<>> /\ handlers = AllHandlers
            /\ last.threw = "none")

\* C5 (as claimed): when geolocation is unavailable or was denied, so that the
\* map never loads, a click on a list entry throws nothing and leaves store,
\* persisted state and map as they were.
C5_ListClickWithoutMapIsNoOp ==
    [][ (last'.op = "listClick" /\ geo \in {"unsupported", "failed"})
        => (last'.threw = "none" /\ UNCHANGED <<workouts, storage, map>>) ]_vars

\* the fields the round trip is claimed to preserve
RoundTripFields == {"id", "coords", "distance", "duration", "type", "description",
                    "clicks", "cadence", "elevationGain", "pace", "speed"}

SameRecords(as, bs) ==
    /\ Len(as) = Len(bs)
    /\ \A i \in 1..Len(as) : \A f \in RoundTripFields : as[i][f] = bs[i][f]

C7_StoreIsAppendOnly ==
    [][ (phase # "boot" /\ phase' # "boot")
        => IF SubmitStep /\ ~InputsFailValidation
           THEN AppendsOne
           ELSE workouts' = workouts ]_vars

\* two records with the same id sit side by side: nothing was deduplicated
C7_Witness ==
    /\ last = Quiet("submit")
    /\ Len(workouts) = 2
    /\ workouts[1].id = workouts[2].id
    /\ workouts[1].coords # workouts[2].coords

\* C8: every record of the store has finite distance > 0 and duration > 0, and
\* every record of type 'running' has cadence > 0.
C8_StoredRecordsArePositive ==
    \A i \in 1..Len(workouts) :
        /\ PositiveFinite(workouts[i].distance)
        /\ PositiveFinite(workouts[i].duration)
        /\ (workouts[i].type = Str("running") => PositiveFinite(workouts[i].cadence))

\* the store holds a record made by a running submit and one made by a cycling
\* submit
C8_Witness ==
    /\ last = Quiet("submit")
    /\ Len(workouts) = 2
    /\ workouts[1].proto = "Workout"
    /\ workouts[1].distance = Num(5, 1)
    /\ workouts[2].proto = "Cycling"

\* C9: with finite positive distance and duration, a cycling submit is accepted
\* for every finite elevation (zero and negative included, an empty field read
\* as 0), while a running submit is refused whenever cadence is not a finite
\* number > 0.
C9_ValidationIsAsymmetric ==
    [][ (SubmitStep /\ PositiveFinite(Distance) /\ PositiveFinite(Duration))
        => /\ (inputs.type = "cycling" /\ Elevation.t = "num")
                => /\ AppendsOne
                   /\ last' = Quiet("submit")
                   /\ Newest(workouts').elevationGain = Elevation
                   /\ (inputs.elevation = <<>>
                         => Newest(workouts').elevationGain = Num(0, 1))
           /\ (inputs.type = "running" /\ ~PositiveFinite(Cadence))
                => /\ workouts' = workouts
                   /\ last' = Alerted("submit", SubmitMessage) ]_vars

\* cycling records with elevation 0 (the field left empty) and -400 were accepted
C9_Witness ==
    /\ last = Quiet("submit")
    /\ Len(workouts) = 2
    /\ workouts[1].type = Str("cycling")
    /\ workouts[1].elevationGain = Num(0, 1)
    /\ workouts[2].type = Str("cycling")
    /\ workouts[2].elevationGain = Num(-400, 1)

\* ids the clock can produce, and one that no record can carry
ProbeIds == {IdOf(Instants[i]).s : i \in 1..Len(Instants)} \cup {"none"}

Holders(ws, id) == {i \in 1..Len(ws) : ws[i].id = Str(id)}

FirstHolder(ws, id) ==
    CHOOSE i \in Holders(ws, id) : \A j \in Holders(ws, id) : i <= j

\* the lookup on store ws answers as a first-match scan must, for every probe id
FindsFirstHolder(ws) ==
    \A id \in ProbeIds :
        IF Holders(ws, id) = {}
        THEN Find(ws, id) = Undefined
        ELSE Find(ws, id) = ws[FirstHolder(ws, id)]

\* C10: on every store the program builds, the lookup gives the first record
\* that carries the id and "not found" when none does; a click on a list entry,
\* with the map loaded, re-centres the map on the first record carrying that
\* entry's id, throws nothing and changes no record (clicks stays 0).
C10_ListClickFindsFirstMatch ==
    [][ /\ (workouts' # workouts) => FindsFirstHolder(workouts')
        /\ (last'.op = "listClick" /\ map.loaded)
              => /\ last'.threw = "none"
                 /\ UNCHANGED <<workouts, storage, list, markers>>
                 /\ \E k \in 1..Len(list) :
                       /\ Holders(workouts, list[k].id) # {}
                       /\ map'.center
                            = workouts[FirstHolder(workouts, list[k].id)].coords
                 /\ \A i \in 1..Len(workouts) : workouts'[i].clicks = Num(0, 1) ]_vars

\* two records with distinct ids; the click on the newer one's entry moved the map
C10_Witness ==
    /\ last = Quiet("listClick")
    /\ Len(workouts) = 2
    /\ workouts[1].id # workouts[2].id
    /\ workouts[1].coords # workouts[2].coords
    /\ map.center = workouts[2].coords

----------------------------------------------------------------------------
(* The classes on their own: a second specification constructs Running and  *)
(* Cycling objects directly from drawn arguments, as lines 25-61 allow any  *)
(* caller to, and then uses them the ways the program uses a record: the    *)
(* click method, the list entry, the save and the load.  The variables keep *)
(* their meaning; workouts holds the objects constructed so far.            *)

MaxClicks == 2

\* argument strings: positive amounts with terminating and non-terminating
\* quotients, and zero, which the constructors accept as they validate nothing
ClassAmounts == { <<"5">>, <<"3">>, <<"2", ".", "5">>, <<"0">> }
ClassTimes == { <<"3", "0">>, <<"1", "0">>, <<"6", "0">>, <<"0">> }
ClassMetrics == { <<"1", "5", "0">>, <<"-", "4", "0", "0">> }

InitClasses ==
    /\ storage = Absent
    /\ phase = "boot"
    /\ geo = "idle"
    /\ workouts = <<>>
    /\ map = NoMap
    /\ markers = <<>>
    /\ \E c \in ClickCoords : mapEvent = [set |-> TRUE, latlng |-> c]
    /\ form = FreshForm
    /\ timers = 0
    /\ \E t \in {"running", "cycling"}, d \in ClassAmounts, m \in ClassTimes,
          x \in ClassMetrics :
          inputs = [type |-> t, distance |-> d, duration |-> m,
                    cadence |-> x, elevation |-> x]
    /\ rows = FreshRows
    /\ list = <<>>
    /\ handlers = {}
    /\ now \in 1..Len(Instants)
    /\ last = Quiet("load")

\* new Running(coords, +distance, +duration, +cadence)
NewRunning ==
    /\ workouts = <<>>
    /\ inputs.type = "running"
    /\ workouts' = <<Running(mapEvent.latlng, ToNumber(inputs.distance),
                             ToNumber(inputs.duration), ToNumber(inputs.cadence),
                             Instants[now], Instants[now])>>
    /\ last' = Quiet("new")
    /\ UNCHANGED <<storage, phase, geo, map, markers, mapEvent, form, timers,
                   inputs, rows, list, handlers, now>>

\* new Cycling(coords, +distance, +duration, +elevation)
NewCycling ==
    /\ workouts = <<>>
    /\ inputs.type = "cycling"
    /\ workouts' = <<Cycling(mapEvent.latlng, ToNumber(inputs.distance),
                             ToNumber(inputs.duration), ToNumber(inputs.elevation),
                             Instants[now], Instants[now])>>
    /\ last' = Quiet("new")
    /\ UNCHANGED <<storage, phase, geo, map, markers, mapEvent, form, timers,
                   inputs, rows, list, handlers, now>>

\* workout.click() on the object
CallClick ==
    /\ Len(workouts) = 1
    /\ workouts[1].clicks.n < MaxClicks
    /\ workouts' = <<click(workouts[1])>>
    /\ last' = Quiet("click")
    /\ UNCHANGED <<storage, phase, geo, map, markers, mapEvent, form, timers,
                   inputs, rows, list, handlers, now>>

\* #renderWorkout on the object, into an empty list
CallRender ==
    /\ Len(workouts) = 1
    /\ list = <<>>
    /\ LET r == renderWorkout(workouts[1], list)
       IN  /\ list' = r.list
           /\ last' = IF r.threw = "none" THEN Quiet("render")
                      ELSE Threw("render", r.threw)
    /\ UNCHANGED <<storage, phase, geo, workouts, map, markers, mapEvent, form,
                   timers, inputs, rows, handlers, now>>

\* JSON.stringify of the objects, as #setLocalStorage writes it
CallSave ==
    /\ Len(workouts) = 1
    /\ storage' = JSONStringify(workouts)
    /\ storage' # storage
    /\ last' = Quiet("save")
    /\ UNCHANGED <<phase, geo, workouts, map, markers, mapEvent, form, timers,
                   inputs, rows, list, handlers, now>>

\* JSON.parse of what was saved, as #getLocalStorage installs it
CallLoad ==
    /\ storage.kind = "array"
    /\ workouts' = JSONParse(storage).data
    /\ workouts' # workouts
    /\ last' = Quiet("loadObjects")
    /\ UNCHANGED <<storage, phase, geo, map, markers, mapEvent, form, timers,
                   inputs, rows, list, handlers, now>>

NextClasses ==
    \/ NewRunning
    \/ NewCycling
    \/ CallClick
    \/ CallRender
    \/ CallSave
    \/ CallLoad

SpecClasses == InitClasses /\ [][NextClasses]_vars

\* C11: for positive finite distance and duration an object of type 'running'
\* holds pace = duration / distance and an object of type 'cycling' holds
\* speed = distance / (duration / 60) = 60 * distance / duration, as exact
\* quotients (not rounded to the displayed decimal) and, since the arguments
\* stay what they were, still so after click(), rendering, saving and loading.
C11_DerivedMetricIsExactAndKept ==
    \A i \in 1..Len(workouts) :
        (PositiveFinite(Distance) /\ PositiveFinite(Duration))
        => /\ workouts[i].distance = Distance
           /\ workouts[i].duration = Duration
           /\ workouts[i].type = Str("running")
                => /\ workouts[i].pace
                        = Num(Duration.n * Distance.d, Duration.d * Distance.n)
                   /\ workouts[i].speed = Undefined
           /\ workouts[i].type = Str("cycling")
                => /\ workouts[i].speed
                        = Num(60 * Distance.n * Duration.d, Distance.d * Duration.n)
                   /\ workouts[i].pace = Undefined

\* a Running object built from distance 3 and duration 10 holds pace 10/3 after
\* it was clicked, shown as "3.3" and taken through a save and a load
C11_Witness ==
    /\ last = Quiet("loadObjects")
    /\ Len(workouts) = 1
    /\ workouts[1].proto = "Object"
    /\ workouts[1].type = Str("running")
    /\ workouts[1].pace = Num(10, 3)
    /\ workouts[1].clicks = Num(1, 1)
    /\ Len(list) = 1
    /\ list[1].metric = Str("3.3")

----------------------------------------------------------------------------
(* Properties of the controller, continued *)

Capitalized(type) ==
    CASE type = "running" -> "Running"
      [] type = "cycling" -> "Cycling"

\* the label claimed for a record of the given type created at instant at
Label(type, at) ==
    Str(Capitalized(type) \o " on " \o months[GetMonth(at) + 1] \o " "
        \o ToString(GetDate(at)))

\* C12 (as claimed): the record an accepted submit appends carries the
\* description "{Capitalized type} on {Month name} {day}" of the submitted type
\* and of the instant it was created at.
C12_AppendedRecordIsLabelled ==
    [][ (SubmitStep /\ ~InputsFailValidation)
        => /\ AppendsOne
           /\ Newest(workouts').description = Label(inputs.type, Instants[now']) ]_vars

\* within a session the store changes only by a submit made after a map click,
\* which appends one record at the position of the latest click
AppendsAtLatestClick ==
    (phase # "boot" /\ phase' # "boot" /\ workouts' # workouts)
        => /\ last'.op = "submit"
           /\ mapEvent.set
           /\ AppendsOne
           /\ Newest(workouts').coords = mapEvent.latlng

\* C14 (as claimed): a record is appended only by a submit that follows a map
\* click and carries the position of the latest click; a submit made before
\* any map click appends nothing and throws nothing.
C14_AppendOnlyAfterMapClick ==
    [][ /\ AppendsAtLatestClick
        /\ (last'.op = "submit" /\ ~mapEvent.set)
              => (workouts' = workouts /\ last'.threw = "none") ]_vars

\* within a session the persisted state is written only by a successful
\* submit, which appends a record and then writes the whole store
WritesOnlyWholeStore ==
    /\ (phase # "boot" /\ phase' # "boot" /\ storage' # storage)
          => last' = Quiet("submit")
    /\ (last' = Quiet("submit"))
          => (AppendsOne /\ storage' = JSONStringify(workouts'))

\* C15 (as claimed): once the constructor has run, the persisted state is
\* absent or the serialization of the whole store, and only a successful
\* submit writes it.
C15_PersistedIsAbsentOrStore ==
    [][ /\ WritesOnlyWholeStore
        /\ (phase' # "boot")
              => (storage' = Absent \/ storage' = JSONStringify(workouts')) ]_vars

\* the startup found nothing it could install and no submit has succeeded since
NothingInstalled ==
    /\ storage.kind \in {"absent", "null", "garbage"}
    /\ workouts = <<>>

\* C15 (amended): once the constructor has run, the persisted state is the
\* serialization of the whole store, or it is what the startup found (absent,
\* or a text it could not install) with the store still empty; only a
\* successful submit writes it, after appending.
C15_PersistedIsStoreOrUntouched ==
    [][ /\ WritesOnlyWholeStore
        /\ (phase' # "boot")
              => (NothingInstalled' \/ storage' = JSONStringify(workouts')) ]_vars

\* a rehydrated record and one appended in this session are both in what the
\* submit wrote
C15_Witness ==
    /\ last = Quiet("submit")
    /\ Len(workouts) = 2
    /\ workouts[1].proto = "Object"
    /\ workouts[2].proto = "Cycling"
    /\ storage = JSONStringify(workouts)
    /\ Len(storage.items) = 2

\* C16: while the map has not loaded there are no markers; once it has, the
\* markers are, in store order, one per record of the store (rehydrated or
\* appended since) at that record's coordinates, no record without and none
\* with two.
C16_MarkersInStepWithStore ==
    IF ~map.loaded
    THEN markers = <<>>
    ELSE /\ Len(markers) = Len(workouts)
         /\ \A i \in 1..Len(workouts) : markers[i].coords = workouts[i].coords

\* the map loaded after a record was rehydrated, and a second record was
\* appended at another position: two markers, one at each position
C16_Witness ==
    /\ map.loaded
    /\ Len(workouts) = 2
    /\ workouts[1].proto = "Object"
    /\ workouts[2].proto # "Object"
    /\ workouts[1].coords # workouts[2].coords
    /\ Len(markers) = 2
    /\ markers[1].coords = workouts[1].coords
    /\ markers[2].coords = workouts[2].coords

MapClickStep == phase' # "boot" /\ mapEvent' # mapEvent

\* the form is closed on a fresh page, a successful submit closes it and
\* empties the four text inputs, and only a map click opens it
ClosedUnlessClicked ==
    /\ (phase' = "boot") => form'.hidden
    /\ (last' = Quiet("submit"))
          => /\ form'.hidden
             /\ form'.display = "none"
             /\ inputs'.distance = <<>> /\ inputs'.duration = <<>>
             /\ inputs'.cadence = <<>> /\ inputs'.elevation = <<>>
    /\ (form.hidden /\ ~form'.hidden)
          => (map.loaded /\ mapEvent'.set /\ form'.focus = "distance"
              /\ UNCHANGED <<workouts, storage, inputs, timers>>)

\* C18 (as claimed): the form is closed at startup, open and visible when the
\* handler of a map click returns, whatever came before, closed and emptied by
\* a successful submit, and closed until the next map click.
C18_FormOpensOnEveryMapClick ==
    [][ /\ ClosedUnlessClicked
        /\ MapClickStep => (~form'.hidden /\ form'.display # "none") ]_vars

----------------------------------------------------------------------------
(* The validators on their own: a third specification applies the two arrow *)
(* functions of lines 148-149 to argument lists of every drawn value.  The  *)
(* variable inputs is their rest parameter ...inputs.                       *)

MaxArgs == 3

\* finite numbers, the non-finite numbers, undefined, null and two strings
ValidatorValues ==
    { Num(5, 1), Num(1, 2), Num(0, 1), Num(-1, 1), NaN, PosInf, NegInf,
      Undefined, Null, Chars(<<"5">>), Chars(<<"a", "b", "c">>) }

Verdict(finite, positive) ==
    [op |-> "validate", threw |-> "none", alert |-> "",
     finite |-> finite, positive |-> positive]

InitValidators ==
    /\ storage = Absent
    /\ phase = "boot"
    /\ geo = "idle"
    /\ workouts = <<>>
    /\ map = NoMap
    /\ markers = <<>>
    /\ mapEvent = NoEvent
    /\ form = FreshForm
    /\ timers = 0
    /\ inputs = <<>>
    /\ rows = FreshRows
    /\ list = <<>>
    /\ handlers = {}
    /\ now = 0
    /\ last = Quiet("load")

\* the caller passes one more argument
MoreArgs ==
    /\ Len(inputs) < MaxArgs
    /\ \E v \in ValidatorValues : inputs' = Append(inputs, v)
    /\ last' = Quiet("args")
    /\ UNCHANGED <<storage, phase, geo, workouts, map, markers, mapEvent, form,
                   timers, rows, list, handlers, now>>

\* validInputs(...inputs) and allPositive(...inputs)
Validate ==
    /\ last.op # "validate"
    /\ last' = Verdict(validInputs(inputs), allPositive(inputs))
    /\ UNCHANGED <<storage, phase, geo, workouts, map, markers, mapEvent, form,
                   timers, inputs, rows, list, handlers, now>>

NextValidators ==
    \/ MoreArgs
    \/ Validate

SpecValidators == InitValidators /\ [][NextValidators]_vars

\* the drawn values that are finite numbers, and those greater than zero (the
\* string "5" is, by the conversion x > 0 applies)
FiniteOnes == { Num(5, 1), Num(1, 2), Num(0, 1), Num(-1, 1) }
PositiveOnes == { Num(5, 1), Num(1, 2), PosInf, Chars(<<"5">>) }

\* C13: on every argument list both validators answer, without throwing;
\* validInputs answers true exactly when every argument is a finite number,
\* allPositive exactly when every argument is greater than zero, and both
\* answer true on the empty list.
C13_ValidatorsAreTotalAndExact ==
    (last.op = "validate")
        => /\ last.threw = "none"
           /\ last.finite = (\A i \in 1..Len(inputs) : inputs[i] \in FiniteOnes)
           /\ last.positive = (\A i \in 1..Len(inputs) : inputs[i] \in PositiveOnes)
           /\ (inputs = <<>>) => (last.finite /\ last.positive)

\* both validators were applied to the empty argument list and answered true
C13_Witness ==
    /\ last = Verdict(TRUE, TRUE)
    /\ inputs = <<>>

====
